---- MODULE Spec2Model ----
(***************************************************************************)
(* Model of cms/server/__init__.py: the chunked file delivery of           *)
(* file_handler_gen.FileHandler (fetch, _fetch_write_chunk), the archive   *)
(* extractor extract_archive, and the decorators valid_phase_required,     *)
(* catch_exceptions and decrypt_arguments around a request handler.        *)
(***************************************************************************)
EXTENDS Integers, Sequences, FiniteSets, TLC

VARIABLES handler,   \* per FileHandler instance: its fields and its response
          fs,        \* the temporary files handed out by the file cacher
          nextTemp,  \* the next temporary file name the file cacher hands out
          now,       \* the wall clock read by time.time()
          ex,        \* the last extract_archive call: its inputs and outcome
          rq         \* the last call of a decorated handler: its inputs and outcome

vars == <<handler, fs, nextTemp, now, ex, rq>>

(***************************************************************************)
(* Bounds                                                                  *)
(***************************************************************************)
\* FileCacher.CHUNK_SIZE, scaled down: the read/write unit of a delivery.
CHUNK_SIZE == 2
\* The longest cached file, in bytes.
MaxFileLen == 4
\* The clock stops advancing here.
MaxClock == 2

Handlers == {"h1", "h2"}
TempNames == 1 .. Cardinality(Handlers)
Digests == {"", "d1"}
ContentTypes == {"text/plain"}
Filenames == {"out.txt"}

Min(a, b) == IF a < b THEN a ELSE b

(***************************************************************************)
(* Chunked file delivery: file_handler_gen.FileHandler                     *)
(***************************************************************************)

\* The bytes of the cached file of length n: 1, 2, ..., n (all distinct).
FileBytes(n) == [i \in 1 .. n |-> i]

\* The bytes of the file the file cacher stores at temporary path `name`: no
\* two temporary files share a byte.
CachedBytes(name, n) == [i \in 1 .. n |-> 10 * name + FileBytes(n)[i]]

NoFile == [exists |-> FALSE, data |-> <<>>, unlinks |-> 0]

\* A handler instance before fetch is called on it.
NewHandler ==
  [state |-> "FETCHING",
   temp_filename |-> 0,                       \* 0: attribute not set
   temp_file |-> [kind |-> "none", pos |-> 0],
   size |-> 0,                                \* in units of 1/(1024*1024) MB
   start_time |-> 0,
   headers |-> {},
   body |-> <<>>,                             \* bytes written to the response
   finished |-> 0,                            \* calls of self.finish()
   scheduled |-> FALSE,                       \* _fetch_write_chunk is on the timer
   conn_closed |-> FALSE,                     \* the client closed the connection
   log |-> <<>>,                              \* entries this handler logged
   get_file_calls |-> 0,
   opens |-> 0,
   steps |-> 0,                               \* _fetch_write_chunk invocations
   last_ret |-> "none",                       \* what the last step returned
   call |-> [made |-> FALSE, digest |-> "", get_ok |-> FALSE, temp |-> 0]]
                                              \* fetch's inputs, get_file's answer

EmptyDigest_never(digest) == FALSE

\* if digest == "": (line 206)
EmptyDigest(digest) == digest = ""

\* fetch, lines 206-209: the empty-digest branch.
FetchNoDigest(s) ==
  [s EXCEPT !.log = Append(@, [level |-> "error", msg |-> "No digest given"]),
            !.finished = @ + 1,
            !.state = "ABORTED"]

\* As FetchGetFileFailed, the return of line 218 missing: the delivery starts.
FetchGetFileFailed_noreturn(s, filename) ==
  [s EXCEPT !.get_file_calls = @ + 1,
            !.log = Append(@, [level |-> "error", msg |-> "Exception while retrieving file",
                               filename |-> filename]),
            !.finished = @ + 1,
            !.headers = (@ \cup {<<"Content-Type", "text/plain">>}),
            !.temp_file = [kind |-> "open", pos |-> 0],
            !.opens = @ + 1,
            !.state = "ABORTED"]

\* fetch, lines 210-218: get_file raised.
FetchGetFileFailed(s, filename) ==
  [s EXCEPT !.get_file_calls = @ + 1,
            !.log = Append(@, [level |-> "error", msg |-> "Exception while retrieving file",
                               filename |-> filename]),
            !.finished = @ + 1,
            !.state = "ABORTED"]

\* As FetchStart, the path kept in one place shared by all handlers.
FetchStart_shared(s, name, content_type, filename, t) ==
  [s EXCEPT !.get_file_calls = @ + 1,
            !.temp_filename = 1,
            !.headers = (@ \cup {<<"Content-Type", content_type>>,
                                 <<"Content-Disposition", <<"attachment; filename=", filename>> >>}),
            !.start_time = t,
            !.size = 0,
            !.temp_file = [kind |-> "open", pos |-> 0],
            !.opens = @ + 1,
            !.scheduled = TRUE,
            !.state = "STREAMING"]

\* fetch, lines 211-228: get_file returned the temporary path `name`.
FetchStart(s, name, content_type, filename, t) ==
  [s EXCEPT !.get_file_calls = @ + 1,
            !.temp_filename = name,
            !.headers = (@ \cup {<<"Content-Type", content_type>>,
                                 <<"Content-Disposition", <<"attachment; filename=", filename>> >>}),
            !.start_time = t,
            !.size = 0,
            !.temp_file = [kind |-> "open", pos |-> 0],
            !.opens = @ + 1,
            !.scheduled = TRUE,
            !.state = "STREAMING"]

\* FileHandler.fetch(digest, content_type, filename); get_ok and n are the file
\* cacher's answer: whether get_file succeeds, and the length of the file.
fetch(h) ==
  /\ handler[h].state = "FETCHING"
  /\ \E digest \in Digests, content_type \in ContentTypes, filename \in Filenames,
        get_ok \in BOOLEAN, n \in 0 .. MaxFileLen :
       LET s == [handler[h] EXCEPT
                   !.call = [made |-> TRUE, digest |-> digest, get_ok |-> get_ok,
                             temp |-> IF digest # "" /\ get_ok THEN nextTemp ELSE 0]]
       IN
       IF EmptyDigest(digest)
       THEN /\ handler' = [handler EXCEPT ![h] = FetchNoDigest(s)]
            /\ UNCHANGED <<fs, nextTemp>>
       ELSE IF ~get_ok
       THEN /\ handler' = [handler EXCEPT ![h] = FetchGetFileFailed(s, filename)]
            /\ UNCHANGED <<fs, nextTemp>>
       ELSE /\ handler' = [handler EXCEPT ![h] =
                              FetchStart(s, nextTemp, content_type, filename, now)]
            /\ fs' = [fs EXCEPT ![nextTemp] =
                              [exists |-> TRUE, data |-> CachedBytes(nextTemp, n), unlinks |-> 0]]
            /\ nextTemp' = nextTemp + 1
  /\ UNCHANGED <<now, ex, rq>>

\* As ReadChunk, reading from one byte too far.
ReadChunk_skip(data, pos) == SubSeq(data, pos + 2, Min(pos + 1 + CHUNK_SIZE, Len(data)))

\* self.temp_file.read(FileCacher.CHUNK_SIZE) (line 234)
ReadChunk(data, pos) == SubSeq(data, pos + 1, Min(pos + CHUNK_SIZE, Len(data)))

\* if length < FileCacher.CHUNK_SIZE: (line 238)
ShortRead(length) == length < CHUNK_SIZE

\* self.size, kept as a count of 1/(1024*1024) MB, as the rational it stands for:
\* length / 1024.0 / 1024.0 is exact in floating point (line 236).
SizeMB(size) == <<size, 1024 * 1024>>

\* The step ended by an exception: nothing is returned to the timer.
Raised(s, what) == [s EXCEPT !.scheduled = FALSE, !.last_ret = what, !.state = "FAILED"]

\* As TerminalStep, returning True: the timer calls the step again.
TerminalStep_reschedule(s, t) ==
  [h |-> [s EXCEPT !.temp_file.kind = "closed",
                   !.log = Append(@, [level |-> "info", duration |-> t - s.start_time,
                                      size |-> SizeMB(s.size),
                                      rate |-> <<SizeMB(s.size), t - s.start_time>>]),
                   !.finished = @ + 1,
                   !.last_ret = "True"],
   unlink |-> TRUE]

\* _fetch_write_chunk, lines 239-245: the terminal step, at time t.
\* unlink tells whether os.unlink was reached.
TerminalStep(s, t) ==
  LET closed == [s EXCEPT !.temp_file.kind = "closed"]
      duration == t - s.start_time
  IN IF duration = 0
     THEN \* self.size / duration: ZeroDivisionError, after the unlink
          [h |-> Raised(closed, "ZeroDivisionError"), unlink |-> TRUE]
     ELSE [h |-> [closed EXCEPT
                    !.log = Append(@, [level |-> "info", duration |-> duration,
                                       size |-> SizeMB(s.size),
                                       rate |-> <<SizeMB(s.size), duration>>]),
                    !.finished = @ + 1,
                    !.scheduled = FALSE,
                    !.last_ret = "False",
                    !.state = "DONE"],
           unlink |-> TRUE]

\* _fetch_write_chunk, lines 234-246, on the file `file`, at time t; wfail:
\* self.write raises.
WriteChunk(s, file, wfail, t) ==
  IF s.temp_file.kind # "open"
  THEN [h |-> Raised([s EXCEPT !.steps = @ + 1], "ValueError"), unlink |-> FALSE]
  ELSE
  LET data == ReadChunk(file.data, s.temp_file.pos)
      length == Len(data)
      s1 == [s EXCEPT !.steps = @ + 1,
                      !.temp_file.pos = @ + length,
                      !.size = @ + length]
      s2 == [s1 EXCEPT !.body = @ \o data]
  IN IF wfail \/ s.finished > 0
     THEN [h |-> Raised(s1, "WriteError"), unlink |-> FALSE]
     ELSE IF ShortRead(length)
          THEN TerminalStep(s2, t)
          ELSE [h |-> [s2 EXCEPT !.last_ret = "True"], unlink |-> FALSE]

\* os.unlink(self.temp_filename) (line 240)
Unlink(file) == [file EXCEPT !.exists = FALSE, !.unlinks = @ + 1]

\* One invocation of FileHandler._fetch_write_chunk by the timer.
fetch_write_chunk(h) ==
  /\ handler[h].scheduled
  /\ \E wfail \in BOOLEAN :
       LET s == handler[h]
           r == WriteChunk(s, fs[s.temp_filename], wfail, now)
       IN /\ handler' = [handler EXCEPT ![h] = r.h]
          /\ fs' = IF r.unlink THEN [fs EXCEPT ![s.temp_filename] = Unlink(@)] ELSE fs
  /\ UNCHANGED <<nextTemp, now, ex, rq>>

\* The client closes its connection while the delivery is streaming. No code of
\* FileHandler reads this (on_connection_close is not overridden).
client_close(h) ==
  /\ handler[h].state = "STREAMING"
  /\ ~handler[h].conn_closed
  /\ handler' = [handler EXCEPT ![h].conn_closed = TRUE]
  /\ UNCHANGED <<fs, nextTemp, now, ex, rq>>

\* time.time() advances.
tick ==
  /\ now < MaxClock
  /\ now' = now + 1
  /\ UNCHANGED <<handler, fs, nextTemp, ex, rq>>

NoExtract == [called |-> FALSE]
NoRequest == [called |-> FALSE]

Init ==
  /\ handler = [h \in Handlers |-> NewHandler]
  /\ fs = [f \in TempNames |-> NoFile]
  /\ nextTemp = 1
  /\ now = 0
  /\ ex = NoExtract
  /\ rq = NoRequest

NextDelivery ==
  \/ \E h \in Handlers : fetch(h)
  \/ \E h \in Handlers : fetch_write_chunk(h)
  \/ \E h \in Handlers : client_close(h)
  \/ tick

SpecDelivery == Init /\ [][NextDelivery]_vars

\* The timer keeps invoking a step that is scheduled (add_timeout, line 226).
SpecDeliveryFair ==
  SpecDelivery /\ \A h \in Handlers : WF_vars(fetch_write_chunk(h))

(***************************************************************************)
(* Archive extraction: extract_archive                                     *)
(***************************************************************************)

\* The most entries an archive holds.
MaxEntries == 2

\* File names are sequences of characters.
DotZip == <<".", "z", "i", "p">>
DotTar == <<".", "t", "a", "r">>
DotTarGz == DotTar \o <<".", "g", "z">>
DotTarBz2 == DotTar \o <<".", "b", "z", "2">>

\* The upload names tried, by what their suffix stands for.
ZipNames == {<<"a">> \o DotZip, DotZip}
TarNames == {<<"a">> \o DotTar, <<"a">> \o DotTarGz, <<"a">> \o DotTarBz2,
             <<"a">> \o DotZip \o DotTar}
OtherNames == {<<"x", ".", "r", "a", "r">>, <<"z", "i", "p">>, <<>>,
               <<"a">> \o DotZip \o <<".", "b", "a", "k">>,
               <<"a">> \o DotTar \o <<".", "x", "z">>,
               <<"a", ".", "Z", "I", "P">>, <<"a", ".", "t", "g", "z">>}
OriginalNames == ZipNames \cup TarNames \cup OtherNames

\* The path the upload was stored at.
TempPath == <<"/", "t", "m", "p", "/", "u">>
Paths == {TempPath} \cup OriginalNames

\* As EndsWith, matching the suffix anywhere in the name.
EndsWith_anywhere(s, suffix) ==
  \E i \in 1 .. Len(s) : SubSeq(s, i, Min(i + Len(suffix) - 1, Len(s))) = suffix

\* str.endswith (lines 113, 122-124)
EndsWith(s, suffix) ==
  /\ Len(s) >= Len(suffix)
  /\ SubSeq(s, Len(s) - Len(suffix) + 1, Len(s)) = suffix

\* The members an archive can hold: two regular files and a directory.
Entries == {[name |-> "a.txt", type |-> "file", body |-> <<1>>],
            [name |-> "dir/b.txt", type |-> "file", body |-> <<2, 3>>],
            [name |-> "dir", type |-> "dir", body |-> <<>>]}

EntryLists == UNION {[1 .. n -> Entries] : n \in 0 .. MaxEntries}

Containers == {"zip", "tar", "tar.gz", "tar.bz2", "other"}

\* What a reader can meet in a damaged container: a structural error, an I/O
\* error, or, in a compressed one, an error of the decompressor (zlib.error,
\* EOFError).
Damage(container) ==
  IF container = "tar" THEN {"format", "io"} ELSE {"format", "io", "decompress"}

\* A file on disk: its container format, its members, and, when damaged, the
\* number of members a reader gets through before the damage raises.
Files ==
  {[container |-> c, entries |-> es, fail_kind |-> "none", fail_at |-> 0] :
      c \in Containers, es \in EntryLists}
  \cup
  UNION {{[container |-> c, entries |-> es, fail_kind |-> k, fail_at |-> n] :
            es \in EntryLists, k \in Damage(c), n \in 0 .. MaxEntries} :
         c \in Containers \ {"other"}}

WellFormed(file) == file.fail_kind = "none" /\ file.container # "other"

Absent == [container |-> "absent", entries |-> <<>>, fail_kind |-> "none", fail_at |-> 0]

\* Some other file that happens to carry the upload's name.
Decoy == [container |-> "zip", entries |-> <<>>, fail_kind |-> "none", fail_at |-> 0]

\* The members read before the reader raises (all of them, if it does not).
ReadBeforeFailure(file) ==
  IF file.fail_kind = "none" THEN file.entries
  ELSE SubSeq(file.entries, 1, Min(file.fail_at, Len(file.entries)))

\* The exception a reader of `format` ("zip" or "tar") raises on the file, or "none".
ReaderException(file, format) ==
  IF file.container = "absent" THEN "IOError"
  ELSE IF format = "zip" /\ file.container # "zip" THEN "BadZipfile"
  ELSE IF format = "tar" /\ file.container \notin {"tar", "tar.gz", "tar.bz2"} THEN "TarError"
  ELSE IF file.fail_kind = "format" THEN (IF format = "zip" THEN "BadZipfile" ELSE "TarError")
  ELSE IF file.fail_kind = "io" THEN "IOError"
  ELSE IF file.fail_kind = "decompress" THEN "zlib.error"
  ELSE "none"

Item(e) == [filename |-> e.name, body |-> e.body]

\* Lines 114-119: the file_list built from the ZIP at `path`, and the exception met.
ZipBranch(files, path) ==
  LET file == files[path]
      exc == ReaderException(file, "zip")
      read == IF file.container # "zip" THEN <<>> ELSE ReadBeforeFailure(file)
  IN [file_list |-> [i \in 1 .. Len(read) |-> Item(read[i])],
      exc |-> exc, opened |-> {path}, reader |-> "zip"]

\* if item.isfile(): (line 128)
IsFile(e) == e.type = "file"

\* Lines 125-131: the file_list built from the TAR at `path`, and the exception met.
TarBranch(files, path) ==
  LET file == files[path]
      exc == ReaderException(file, "tar")
      read == IF file.container \notin {"tar", "tar.gz", "tar.bz2"}
              THEN <<>> ELSE ReadBeforeFailure(file)
      kept == SelectSeq(read, IsFile)
  IN [file_list |-> [i \in 1 .. Len(kept) |-> Item(kept[i])],
      exc |-> exc, opened |-> {path}, reader |-> "tar"]

\* What the try statement of the ZIP branch does with an exception (lines 120-121).
ZipCaught(exc) == exc # "none"

\* What the try statement of the TAR branch catches (lines 132-135).
TarCaught(exc) == exc \in {"TarError", "IOError"}

\* The call's outcome: "list" with the value returned, "None", or "raise".
Outcome(kind, b) ==
  [kind |-> kind,
   value |-> IF kind = "list" THEN b.file_list ELSE <<>>,
   exc |-> IF kind = "raise" THEN b.exc ELSE "none",
   met |-> b.exc,            \* the exception met inside the try statement
   opened |-> b.opened,
   reader |-> b.reader,
   read |-> b.file_list]     \* file_list when the call ended

NoBranch == [file_list |-> <<>>, exc |-> "none", opened |-> {}, reader |-> "none"]

\* extract_archive(temp_name, original_filename), lines 104-138, over the files on disk.
extract_archive(files, temp_name, original_filename) ==
  IF EndsWith(original_filename, DotZip)
  THEN LET b == ZipBranch(files, original_filename)
       IN IF ZipCaught(b.exc) THEN Outcome("None", b)
          ELSE Outcome("list", b)
  ELSE IF \/ EndsWith(original_filename, DotTarGz)
          \/ EndsWith(original_filename, DotTarBz2)
          \/ EndsWith(original_filename, DotTar)
  THEN LET b == TarBranch(files, temp_name)
       IN IF b.exc = "none" THEN Outcome("list", b)
          ELSE IF TarCaught(b.exc) THEN Outcome("None", b)
          ELSE Outcome("raise", b)
  ELSE Outcome("None", NoBranch)

\* A caller stores an upload at TempPath and calls extract_archive with the
\* name the user gave; a file of that name may or may not exist.
extract_call ==
  /\ ~ex.called
  /\ \E upload \in Files, original_filename \in OriginalNames,
        other \in {Absent, Decoy} :
       LET files == [p \in Paths |-> IF p = TempPath THEN upload
                                     ELSE IF p = original_filename THEN other
                                     ELSE Absent]
       IN ex' = [called |-> TRUE,
                 upload |-> upload,
                 original_filename |-> original_filename,
                 other |-> other,
                 result |-> extract_archive(files, TempPath, original_filename)]
  /\ UNCHANGED <<handler, fs, nextTemp, now, rq>>

\* The caller is done with the result.
extract_return ==
  /\ ex.called
  /\ ex' = NoExtract
  /\ UNCHANGED <<handler, fs, nextTemp, now, rq>>

NextExtract == extract_call \/ extract_return

SpecExtract == Init /\ [][NextExtract]_vars

(***************************************************************************)
(* Decorators: decrypt_arguments                                           *)
(***************************************************************************)

\* The most positional arguments of a request.
MaxArgs == 2

\* Route tokens: two validly encrypted identifiers and a malformed one.
Tokens == {"enc1", "enc2", "junk"}
Keys == {"k1", "k2"}
\* self.current_user: an authenticated user, or "None".
Users == {"None", "alice"}

\* cmscommon.Cryptographics.decrypt_number: whether it raises ValueError.
DecryptFails(token) == token = "junk"

\* cmscommon.Cryptographics.decrypt_number on a valid token.
decrypt_number(token) == IF token = "enc1" THEN 1 ELSE 2

\* The except clauses, lines 88-91 and 96-99: the warning names
\* self.current_user.username, then HTTPError(403) is raised.
OnValueError(current_user) ==
  IF current_user = "None"
  THEN [raised |-> "AttributeError", log |-> <<>>]
  ELSE [raised |-> "HTTPError403",
        log |-> <<[level |-> "warning", user |-> current_user]>>]

\* As DecryptLoop, each decrypted value put in front of the ones before it.
RECURSIVE DecryptLoop_reversed(_, _, _)
DecryptLoop_reversed(tokens, i, acc) ==
  IF i > Len(tokens)
  THEN [failed |-> FALSE, values |-> acc, passed |-> tokens]
  ELSE IF DecryptFails(tokens[i])
       THEN [failed |-> TRUE, values |-> acc, passed |-> SubSeq(tokens, 1, i)]
       ELSE DecryptLoop_reversed(tokens, i + 1, <<decrypt_number(tokens[i])>> \o acc)

\* The loops of lines 85-91 and 93-99 over tokens[i .. ]: the values decrypted,
\* the tokens handed to decrypt_number, and whether a ValueError ended the loop.
RECURSIVE DecryptLoop(_, _, _)
DecryptLoop(tokens, i, acc) ==
  IF i > Len(tokens)
  THEN [failed |-> FALSE, values |-> acc, passed |-> tokens]
  ELSE IF DecryptFails(tokens[i])
       THEN [failed |-> TRUE, values |-> acc, passed |-> SubSeq(tokens, 1, i)]
       ELSE DecryptLoop(tokens, i + 1, Append(acc, decrypt_number(tokens[i])))

\* decrypt_arguments(func)(self, *args, **kwargs), lines 82-100. kwargs is the
\* sequence of <<key, token>> in the dictionary's iteration order.
decrypt_arguments(current_user, args, kwargs) ==
  LET a == DecryptLoop(args, 1, <<>>)
      k == DecryptLoop([i \in 1 .. Len(kwargs) |-> kwargs[i][2]], 1, <<>>)
      e == OnValueError(current_user)
      refuse(passed) == [raised |-> e.raised, log |-> e.log, passed |-> passed,
                         handler_calls |-> 0, new_args |-> <<>>, new_kwargs |-> {}]
  IN IF a.failed THEN refuse(a.passed)
     ELSE IF k.failed THEN refuse(a.passed \o k.passed)
     ELSE [raised |-> "none", log |-> <<>>, passed |-> a.passed \o k.passed,
           handler_calls |-> 1,
           new_args |-> a.values,
           new_kwargs |-> {<<kwargs[i][1], k.values[i]>> : i \in 1 .. Len(k.values)}]

ArgLists == UNION {[1 .. n -> Tokens] : n \in 0 .. MaxArgs}

\* The keyword arguments of a request, in every iteration order of the dictionary.
KwargLists ==
  {<<>>}
  \cup {<< <<key, t>> >> : key \in Keys, t \in Tokens}
  \cup {<< <<k1, t1>>, <<k2, t2>> >> : k1 \in Keys, k2 \in Keys, t1 \in Tokens, t2 \in Tokens}

DistinctKeys(kwargs) ==
  \A i, j \in 1 .. Len(kwargs) : i # j => kwargs[i][1] # kwargs[j][1]

\* A request reaches a handler wrapped by decrypt_arguments.
decrypt_call ==
  /\ ~rq.called
  /\ \E current_user \in Users, args \in ArgLists, kwargs \in KwargLists :
       /\ DistinctKeys(kwargs)
       /\ rq' = [called |-> TRUE, current_user |-> current_user,
                 args |-> args, kwargs |-> kwargs,
                 result |-> decrypt_arguments(current_user, args, kwargs)]
  /\ UNCHANGED <<handler, fs, nextTemp, now, ex>>

\* The request is over.
decrypt_return ==
  /\ rq.called
  /\ rq' = NoRequest
  /\ UNCHANGED <<handler, fs, nextTemp, now, ex>>

NextDecrypt == decrypt_call \/ decrypt_return

SpecDecrypt == Init /\ [][NextDecrypt]_vars

(***************************************************************************)
(* Decorators composed around a handler: valid_phase_required,             *)
(* catch_exceptions, decrypt_arguments, CommonRequestHandler.redirect      *)
(***************************************************************************)

\* self.r_params["phase"]: before the contest, in progress, after it.
Phases == {-1, 0, 1}

\* self.request.path
RequestPaths == {<<"/">>, <<"/", "t", "/", "1">>, <<"/", "a", "/", "b", "/", "c">>}

\* What the wrapped handler does: return a value, raise an HTTPError, raise
\* another exception, or finish the response (a redirect) and then raise.
Behaviours == {"return", "raise_http", "raise_other", "finish_raise"}

\* The decorators applied to the handler, outermost first.
Stacks == {<<"valid_phase_required">>,
           <<"catch_exceptions">>,
           <<"decrypt_arguments">>,
           <<"catch_exceptions", "decrypt_arguments">>,
           <<"catch_exceptions", "valid_phase_required", "decrypt_arguments">>}

\* The request handler (self) when the outermost wrapper is entered.
NewContext(phase, current_user, path) ==
  [phase |-> phase, current_user |-> current_user, path |-> path,
   status |-> 200, headers |-> {}, body |-> <<>>, finished |-> 0,
   log |-> <<>>,
   passed |-> <<>>,            \* tokens handed to decrypt_number
   handler_calls |-> 0, handler_args |-> <<>>, handler_kwargs |-> <<>>]

\* A call's end: the handler state, the exception leaving it, the value returned.
Result(ctx, raised, returned) == [ctx |-> ctx, raised |-> raised, returned |-> returned]

\* "/".join([".."] * n) (line 259)
RECURSIVE JoinDotDot(_)
JoinDotDot(n) ==
  IF n = 1 THEN <<".", ".">> ELSE <<".", ".", "/">> \o JoinDotDot(n - 1)

\* get_url_root(request_path), lines 251-261
get_url_root(request_path) ==
  LET path_depth == Cardinality({i \in 1 .. Len(request_path) : request_path[i] = "/"}) - 1
  IN IF path_depth > 0 THEN JoinDotDot(path_depth) ELSE <<".">>

\* CommonRequestHandler.redirect(url), lines 268-279
redirect(ctx, url) ==
  [ctx EXCEPT !.status = 302,
              !.headers = {hd \in @ : hd[1] # "Location"}
                            \cup {<<"Location", get_url_root(ctx.path) \o url>>},
              !.finished = @ + 1]

\* func(self, *args, **kwargs): the handler under the decorators.
Handler(ctx, args, kwargs, beh) ==
  LET c == [ctx EXCEPT !.handler_calls = @ + 1,
                       !.handler_args = args,
                       !.handler_kwargs = kwargs]
  IN CASE beh = "return" -> Result(c, "none", "value")
       [] beh = "raise_http" -> Result(c, "HTTPError404", "None")
       [] beh = "raise_other" -> Result(c, "KeyError", "None")
       [] beh = "finish_raise" -> Result(redirect(c, <<"/">>), "KeyError", "None")

\* As PhaseInProgress, the phase before the contest let through.
PhaseInProgress_notafter(phase) == phase <= 0

\* self.r_params["phase"] != 0, negated (line 48)
PhaseInProgress(phase) == phase = 0

\* except HTTPError: (line 65)
IsHTTPError(exc) == exc \in {"HTTPError403", "HTTPError404"}

\* catch_exceptions(func).newfunc, lines 63-73, given how func(self, ...) ended.
\* self.write raises once the response is finished.
CatchExceptions(r) ==
  IF r.raised = "none" \/ IsHTTPError(r.raised)
  THEN r
  ELSE LET c == [r.ctx EXCEPT !.log = Append(@, [level |-> "critical", error |-> r.raised])]
       IN IF c.finished > 0
          THEN Result(c, "RuntimeError", "None")
          ELSE Result([c EXCEPT !.body = Append(@, "A critical error has occurred :-("),
                                !.finished = @ + 1],
                      "none", "None")

\* The decorated handler called on the request: each wrapper of the stack
\* around the next, the handler innermost.
RECURSIVE Run(_, _, _, _, _)
Run(stack, ctx, args, kwargs, beh) ==
  IF stack = <<>>
  THEN Handler(ctx, args, kwargs, beh)
  ELSE
  CASE Head(stack) = "catch_exceptions" ->
         CatchExceptions(Run(Tail(stack), ctx, args, kwargs, beh))
    [] Head(stack) = "valid_phase_required" ->
         \* lines 47-51
         IF ~PhaseInProgress(ctx.phase)
         THEN Result(redirect(ctx, <<"/">>), "none", "None")
         ELSE Run(Tail(stack), ctx, args, kwargs, beh)
    [] Head(stack) = "decrypt_arguments" ->
         \* lines 82-100
         LET d == decrypt_arguments(ctx.current_user, args, kwargs)
             c == [ctx EXCEPT !.passed = @ \o d.passed, !.log = @ \o d.log]
         IN IF d.handler_calls = 0
            THEN Result(c, d.raised, "None")
            ELSE Run(Tail(stack), c, d.new_args, d.new_kwargs, beh)

\* A request reaches a decorated handler.
request_call ==
  /\ ~rq.called
  /\ \E stack \in Stacks, phase \in Phases, current_user \in Users, path \in RequestPaths,
        args \in ArgLists, kwargs \in KwargLists, beh \in Behaviours :
       /\ DistinctKeys(kwargs)
       /\ rq' = [called |-> TRUE, stack |-> stack, phase |-> phase,
                 current_user |-> current_user, path |-> path,
                 args |-> args, kwargs |-> kwargs, beh |-> beh,
                 result |-> Run(stack, NewContext(phase, current_user, path),
                                args, kwargs, beh)]
  /\ UNCHANGED <<handler, fs, nextTemp, now, ex>>

\* The request is over.
request_return ==
  /\ rq.called
  /\ rq' = NoRequest
  /\ UNCHANGED <<handler, fs, nextTemp, now, ex>>

NextRequest == request_call \/ request_return

SpecRequest == Init /\ [][NextRequest]_vars

(***************************************************************************)
(* Properties of the delivery                                              *)
(***************************************************************************)

\* The delivery of h got its file from the cache and its read loop has ended.
LoopEnded(h) == handler[h].opens > 0 /\ ~handler[h].scheduled

\* C1: whenever the read loop of a delivery whose cache fetch succeeded has
\* ended (terminal step, write failure, or after the client closed the
\* connection), the read handle is closed and the temporary file has been
\* deleted exactly once.
C1_CleanupOnEveryExit ==
  \A h \in Handlers :
    LoopEnded(h) =>
      /\ handler[h].temp_file.kind = "closed"
      /\ fs[handler[h].temp_filename].unlinks = 1
      /\ ~fs[handler[h].temp_filename].exists

\* C6: fetch called with an empty digest never calls get_file, logs an error,
\* sets no header, opens no file, schedules no read step and finishes the
\* response with an empty body.
C6_EmptyDigestAborts ==
  \A h \in Handlers :
    (handler[h].call.made /\ handler[h].call.digest = "") =>
      /\ handler[h].get_file_calls = 0
      /\ handler[h].log = <<[level |-> "error", msg |-> "No digest given"]>>
      /\ handler[h].headers = {}
      /\ handler[h].opens = 0
      /\ handler[h].temp_file.kind = "none"
      /\ ~handler[h].scheduled
      /\ handler[h].steps = 0
      /\ handler[h].finished = 1
      /\ handler[h].body = <<>>

C6_Witness ==
  \E h \in Handlers :
    handler[h].call.made /\ handler[h].call.digest = "" /\ handler[h].finished = 1

\* C7: when get_file fails, fetch logs the error, finishes the response with
\* no body and without the download headers, opens no file, schedules no read
\* step, and no throughput line is logged for that delivery.
C7_FetchFailureAborts ==
  \A h \in Handlers :
    (handler[h].call.made /\ handler[h].call.digest # "" /\ ~handler[h].call.get_ok) =>
      /\ handler[h].get_file_calls = 1
      /\ Len(handler[h].log) = 1
      /\ handler[h].log[1].level = "error"
      /\ handler[h].finished = 1
      /\ handler[h].body = <<>>
      /\ handler[h].headers = {}
      /\ handler[h].opens = 0
      /\ handler[h].temp_file.kind = "none"
      /\ ~handler[h].scheduled
      /\ handler[h].steps = 0

C7_Witness ==
  \E h \in Handlers :
    /\ handler[h].call.made /\ handler[h].call.digest # "" /\ ~handler[h].call.get_ok
    /\ handler[h].finished = 1
    /\ handler[h].state = "ABORTED"

\* C8: a delivery of a file of size S on which no write fails performs
\* exactly S \div CHUNK_SIZE + 1 read steps, every step but the last returns
\* True, and the last one closes the handle, deletes the file, logs the
\* throughput, finishes the response and returns False.
C8_StepCount ==
  \A h \in Handlers :
    LET s == handler[h]
        S == Len(fs[s.temp_filename].data)
    IN (s.opens > 0 /\ s.last_ret # "WriteError") =>
         /\ s.scheduled => (s.steps <= S \div CHUNK_SIZE /\ s.last_ret \in {"none", "True"})
         /\ ~s.scheduled =>
              /\ s.steps = S \div CHUNK_SIZE + 1
              /\ s.last_ret = "False"
              /\ s.temp_file.kind = "closed"
              /\ fs[s.temp_filename].unlinks = 1
              /\ Len(s.log) = 1 /\ s.log[1].level = "info"
              /\ s.finished = 1

\* C9: on a successful delivery the bytes written to the client are exactly
\* the file's bytes, in order, and the size counter equals the file size;
\* while streaming, what was written is the prefix of the file read so far.
C9_BodyIsFile ==
  \A h \in Handlers :
    LET s == handler[h]
        data == fs[s.temp_filename].data
    IN /\ s.state = "STREAMING" =>
            /\ s.body = SubSeq(data, 1, s.temp_file.pos)
            /\ s.size = s.temp_file.pos
       /\ s.state = "DONE" =>
            /\ s.body = data
            /\ s.size = Len(data)
            /\ s.log[Len(s.log)].size = SizeMB(Len(data))

C9_Witness ==
  \E h \in Handlers :
    /\ handler[h].state = "DONE"
    /\ handler[h].steps > 2
    /\ Len(handler[h].body) = MaxFileLen

\* C15: if the client closes the connection while a delivery is streaming, the
\* next step writes nothing further and signals do-not-reschedule.
C15_CloseStopsLoop ==
  [][\A h \in Handlers :
       (handler[h].conn_closed /\ handler'[h].steps = handler[h].steps + 1) =>
         (handler'[h].body = handler[h].body /\ ~handler'[h].scheduled)]_vars

\* The deliveries whose cache fetch succeeded.
Started == {h \in Handlers : handler[h].opens > 0}

C16_Own ==
  \A h \in Started :
    LET s == handler[h]
        own == fs[s.call.temp]
    IN /\ s.temp_filename = s.call.temp
       /\ \A g \in Started \ {h} : handler[g].temp_filename # s.temp_filename
       /\ s.body = SubSeq(own.data, 1, Len(s.body))
       /\ s.state = "DONE" => s.body = own.data
       /\ own.unlinks <= 1
       /\ own.unlinks = 1 => s.temp_file.kind = "closed"

C16_Step ==
  \A h \in Handlers :
    handler'[h] # handler[h] =>
      /\ \A g \in Handlers \ {h} : handler'[g] = handler[g]
      /\ \A f \in TempNames : fs'[f] # fs[f] => handler'[h].call.temp = f

\* C16: with several deliveries interleaving, each delivery's fields are
\* changed only by its own steps, each client receives the bytes of its own
\* file in order, and each temporary file is deleted only by its owner.
C16_Isolation == []C16_Own /\ [][C16_Step]_vars

C16_Witness ==
  /\ \A h \in Handlers : handler[h].state = "DONE" /\ handler[h].steps > 1
  /\ handler["h1"].body # handler["h2"].body
  /\ Len(handler["h1"].body) # Len(handler["h2"].body)

\* C17: every delivery ends with the response finished: fetch leaves
\* FETCHING for ABORTED (finished) or STREAMING, and a streaming delivery on
\* which no write fails eventually reaches DONE with finish called, whatever
\* the elapsed time.
C17_EventuallyFinished ==
  /\ [][\A h \in Handlers :
         (handler[h].state = "FETCHING" /\ handler'[h].state # "FETCHING") =>
           \/ handler'[h].state = "ABORTED" /\ handler'[h].finished = 1
           \/ handler'[h].state = "STREAMING"]_vars
  /\ \A h \in Handlers :
       (handler[h].state = "STREAMING") ~>
         \/ handler[h].state = "DONE" /\ handler[h].finished = 1
         \/ handler[h].last_ret = "WriteError"

\* C20: a read step is scheduled only on a streaming session (headers set,
\* counter zeroed, start time recorded, file open, response not finished), and
\* once the terminal step has run no step runs again: the closed handle is
\* never read, the file is deleted once and the response finished at most once.
C20_StepsOnlyWhileStreaming ==
  \A h \in Handlers :
    LET s == handler[h]
    IN /\ s.scheduled =>
            /\ s.state = "STREAMING"
            /\ s.temp_file.kind = "open"
            /\ fs[s.temp_filename].exists
            /\ Cardinality(s.headers) = 2
            /\ s.finished = 0
            /\ s.size = s.temp_file.pos
            /\ s.start_time <= now
       /\ s.steps > 0 => s.opens = 1
       /\ s.temp_file.kind = "closed" =>
            /\ ~s.scheduled
            /\ fs[s.temp_filename].unlinks = 1
            /\ s.steps = Len(fs[s.temp_filename].data) \div CHUNK_SIZE + 1
       /\ s.last_ret # "ValueError"
       /\ s.finished <= 1

C20_Witness ==
  \E h \in Handlers :
    /\ handler[h].state = "DONE"
    /\ handler[h].steps > 1
    /\ now = MaxClock
    /\ \A g \in Handlers : handler[g].state # "FETCHING"

(***************************************************************************)
(* Properties of the archive extraction                                    *)
(***************************************************************************)

\* The upload name carries the suffix of the upload's container format.
SuffixFits(name, container) ==
  \/ container = "zip" /\ name \in ZipNames
  \/ container \in {"tar", "tar.gz", "tar.bz2"} /\ name \in TarNames

\* The entries a well-formed container is to yield: all members of a ZIP, the
\* regular files of a TAR, in the container's order.
ExpectedList(file) ==
  LET kept == IF file.container = "zip" THEN file.entries
              ELSE SelectSeq(file.entries, LAMBDA e : e.type = "file")
  IN [i \in 1 .. Len(kept) |-> [filename |-> kept[i].name, body |-> kept[i].body]]

\* C2: for every supported format, extract_archive on a well-formed archive
\* stored at temp_name, whatever exists under the advisory upload name,
\* returns the container's entries with their names and bytes in container
\* order, directories of a TAR left out.
C2_WellFormedExtracts ==
  (ex.called /\ WellFormed(ex.upload) /\ SuffixFits(ex.original_filename, ex.upload.container))
    => (ex.result.kind = "list" /\ ex.result.value = ExpectedList(ex.upload))

\* C3: extract_archive never raises to its caller, whatever the suffix and
\* whatever the reader meets.
C3_NeverRaises == ex.called => ex.result.kind # "raise"

\* C4: extraction is all-or-nothing: a failure met after any number of
\* entries were read gives the failure sentinel, and the result is always
\* either the sentinel or the complete list of the container that was read.
C4_AllOrNothing ==
  ex.called =>
    /\ ex.result.met # "none" => ex.result.kind = "None"
    /\ ex.result.kind \in {"None", "list"}
    /\ ex.result.kind = "list" =>
         \/ ex.result.value = ExpectedList(ex.upload)
         \/ ex.result.value = ExpectedList(ex.other)

\* C5: an upload name ending with none of .zip, .tar.gz, .tar.bz2, .tar gives
\* the failure sentinel and no file is opened or read; a name ending with .zip
\* goes to the ZIP reader and one ending with a TAR suffix to the TAR reader.
C5_UnrecognizedSuffix ==
  ex.called =>
    /\ ex.original_filename \in OtherNames =>
         (ex.result.kind = "None" /\ ex.result.opened = {} /\ ex.result.reader = "none")
    /\ ex.original_filename \in ZipNames => ex.result.reader = "zip"
    /\ ex.original_filename \in TarNames => ex.result.reader = "tar"

C5_Witness ==
  /\ ex.called
  /\ ex.original_filename = <<"x", ".", "r", "a", "r">>
  /\ WellFormed(ex.upload) /\ ex.upload.entries # <<>>
  /\ ex.result.kind = "None"

(***************************************************************************)
(* Properties of the decorators                                            *)
(***************************************************************************)

\* The tokens of a request in processing order: positional, then keyword.
RequestTokens == rq.args \o [i \in 1 .. Len(rq.kwargs) |-> rq.kwargs[i][2]]

\* The position of the first token that does not decrypt (0: none).
FirstBad ==
  LET bad == {i \in 1 .. Len(RequestTokens) : RequestTokens[i] = "junk"}
  IN IF bad = {} THEN 0 ELSE CHOOSE i \in bad : \A j \in bad : i <= j

\* C10: if any argument fails to decrypt, the wrapped handler is never
\* invoked, the request is aborted with HTTP 403, and no argument after the
\* first failing one is passed to decrypt_number.
C10_UndecryptableIsForbidden ==
  (rq.called /\ FirstBad > 0) =>
    /\ rq.result.handler_calls = 0
    /\ rq.result.raised = "HTTPError403"
    /\ rq.result.passed = SubSeq(RequestTokens, 1, FirstBad)

\* The request went through exactly this stack of decorators.
Through(stack) == rq.called /\ rq.stack = stack

\* The relative URL of the site root, by the request path.
SiteRoot ==
  CASE rq.path = <<"/">> -> <<".", "/">>
    [] rq.path = <<"/", "t", "/", "1">> -> <<".", ".", "/">>
    [] rq.path = <<"/", "a", "/", "b", "/", "c">> -> <<".", ".", "/", ".", ".", "/">>

Criticals(log) == {i \in 1 .. Len(log) : log[i].level = "critical"}
Warnings(log) == {i \in 1 .. Len(log) : log[i].level = "warning"}

\* The wrapper redirected to the site root and did nothing else.
OnlyRedirected(c) ==
  /\ c.status = 302
  /\ c.headers = {<<"Location", SiteRoot>>}
  /\ c.finished = 1
  /\ c.body = <<>>
  /\ c.log = <<>>
  /\ c.handler_calls = 0
  /\ c.passed = <<>>

\* C11: valid_phase_required redirects to the site root and never invokes
\* the handler when the phase is not 0; when it is 0 it invokes the handler
\* once with the unchanged arguments and performs no redirect itself.
C11_PhaseGate ==
  Through(<<"valid_phase_required">>) =>
    LET c == rq.result.ctx
    IN /\ rq.phase # 0 => (OnlyRedirected(c) /\ rq.result.raised = "none")
       /\ rq.phase = 0 =>
            /\ c.handler_calls = 1
            /\ c.handler_args = rq.args
            /\ c.handler_kwargs = rq.kwargs
            /\ rq.beh # "finish_raise" => (c.status = 200 /\ c.headers = {} /\ c.finished = 0)
            /\ rq.beh = "return" => (rq.result.returned = "value" /\ rq.result.raised = "none")

C11_Witness ==
  /\ Through(<<"valid_phase_required">>)
  /\ rq.phase = -1
  /\ rq.path = <<"/", "a", "/", "b", "/", "c">>
  /\ rq.args # <<>>
  /\ rq.result.ctx.status = 302

\* C12: catch_exceptions: a handler failure that is not an HTTPError gives
\* exactly one critical log entry, the generic message written, the response
\* finished and nothing propagated; an HTTPError propagates with no log, write
\* or finish; a normal return is passed on with nothing else done.
C12_ErrorBoundary ==
  Through(<<"catch_exceptions">>) =>
    LET c == rq.result.ctx
    IN /\ rq.beh \in {"raise_other", "finish_raise"} =>
            /\ Cardinality(Criticals(c.log)) = 1
            /\ c.body = <<"A critical error has occurred :-(">>
            /\ c.finished >= 1
            /\ rq.result.raised = "none"
       /\ rq.beh = "raise_http" =>
            /\ rq.result.raised = "HTTPError404"
            /\ c.log = <<>> /\ c.body = <<>> /\ c.finished = 0
       /\ rq.beh = "return" =>
            /\ rq.result.returned = "value" /\ rq.result.raised = "none"
            /\ c.log = <<>> /\ c.body = <<>> /\ c.finished = 0

\* C13: an undecryptable argument always ends in a logged warning and HTTP
\* 403, whoever the user is, and never reaches an enclosing catch_exceptions
\* as an unexpected exception.
C13_DecodingFailureIsForbidden ==
  (Through(<<"catch_exceptions", "decrypt_arguments">>) /\ FirstBad > 0) =>
    /\ rq.result.raised = "HTTPError403"
    /\ Cardinality(Warnings(rq.result.ctx.log)) = 1
    /\ Criticals(rq.result.ctx.log) = {}
    /\ rq.result.ctx.body = <<>>

\* C14: in catch_exceptions(valid_phase_required(decrypt_arguments(handler)))
\* a wrong phase gives only the redirect, and an undecryptable argument gives
\* the HTTP 403 leaving the boundary: no critical entry, no generic message,
\* handler not invoked.
C14_BoundaryDoesNotMask ==
  Through(<<"catch_exceptions", "valid_phase_required", "decrypt_arguments">>) =>
    LET c == rq.result.ctx
    IN /\ rq.phase # 0 => (OnlyRedirected(c) /\ rq.result.raised = "none")
       /\ (rq.phase = 0 /\ FirstBad > 0) =>
            /\ rq.result.raised = "HTTPError403"
            /\ Criticals(c.log) = {}
            /\ c.body = <<>>
            /\ c.handler_calls = 0

\* C18: when the handler under catch_exceptions raises after it finished the
\* response, the wrapper does not raise and the response is finished once.
C18_RaiseAfterFinish ==
  (Through(<<"catch_exceptions">>) /\ rq.beh = "finish_raise") =>
    (rq.result.raised = "none" /\ rq.result.ctx.finished = 1)

\* The number a valid token stands for.
Plain(token) == CASE token = "enc1" -> 1 [] token = "enc2" -> 2

\* C19: when every argument decrypts, decrypt_arguments invokes the handler
\* exactly once with the decrypted positional arguments in order and the
\* decrypted keyword arguments under their keys, and returns what it returns.
C19_DecryptedArgumentsForwarded ==
  (Through(<<"decrypt_arguments">>) /\ FirstBad = 0) =>
    LET c == rq.result.ctx
    IN /\ c.handler_calls = 1
       /\ c.handler_args = [i \in 1 .. Len(rq.args) |-> Plain(rq.args[i])]
       /\ c.handler_kwargs =
            {<<rq.kwargs[i][1], Plain(rq.kwargs[i][2])>> : i \in 1 .. Len(rq.kwargs)}
       /\ c.passed = RequestTokens
       /\ c.log = <<>>
       /\ rq.beh = "return" => (rq.result.returned = "value" /\ rq.result.raised = "none")
       /\ rq.beh = "raise_http" => rq.result.raised = "HTTPError404"

C19_Witness ==
  /\ Through(<<"decrypt_arguments">>)
  /\ rq.args = <<"enc2", "enc1">>
  /\ Len(rq.kwargs) = 2
  /\ FirstBad = 0
  /\ rq.beh = "return"
  /\ rq.result.returned = "value"

====
